---- MODULE Spec2Model ----
(***************************************************************************)
(* Model of app.py (Science Lab Assistant): one execution of the Streamlit *)
(* script per user interaction.  A text is a sequence of tokens; a token   *)
(* stands for a character ("\n", " ", a digit, "/", ":") or for a fixed    *)
(* run of characters that the code only ever tests as a whole.             *)
(***************************************************************************)
EXTENDS Integers, Sequences, FiniteSets, TLC

\* ------------------------------------------------------------- bounds
MaxPages == 2       \* pages of an uploaded PDF
MaxLines == 3       \* lines of a free-form model response
MaxContent == 1     \* content lines after each heading of a four-heading response

\* ------------------------------------------------------------- text
NL == "\n"
SP == " "
Whitespace == {SP, NL}
Digits == {"0", "1", "5", "7"}

DigitVal(d) == CASE d = "0" -> 0 [] d = "1" -> 1 [] d = "5" -> 5 [] d = "7" -> 7

\* Python optional values: None is <<>>, a value v is <<v>>.
None == <<>>
Some(v) == <<v>>

\* str.lower() on one token (only the tokens with an upper-case letter change)
Lower(tok) ==
  CASE tok = "Completeness Score" -> "completeness score"
    [] tok = "Missing Sections:" -> "missing sections:"
    [] tok = "Improvement Tips:" -> "improvement tips:"
    [] tok = "Detailed Feedback:" -> "detailed feedback:"
    [] OTHER -> tok

RECURSIVE LStrip(_)
LStrip(t) == IF t # <<>> /\ Head(t) \in Whitespace THEN LStrip(Tail(t)) ELSE t

RECURSIVE RStrip(_)
RStrip(t) ==
  IF t # <<>> /\ t[Len(t)] \in Whitespace THEN RStrip(SubSeq(t, 1, Len(t) - 1)) ELSE t

\* str.strip()
Strip(t) == RStrip(LStrip(t))

\* truth value of a Python str
Truthy(t) == t # <<>>

\* `needle in hay` for strings
Contains(hay, needle) ==
  \E i \in 1..(Len(hay) - Len(needle) + 1) :
     SubSeq(hay, i, i + Len(needle) - 1) = needle

\* str.split('\n'): always at least one line
RECURSIVE SplitFrom(_, _, _)
SplitFrom(t, i, cur) ==
  IF i > Len(t) THEN <<cur>>
  ELSE IF t[i] = NL THEN <<cur>> \o SplitFrom(t, i + 1, <<>>)
  ELSE SplitFrom(t, i + 1, Append(cur, t[i]))

Split(t) == SplitFrom(t, 1, <<>>)

\* '\n'.join(lines)
RECURSIVE Join(_)
Join(ls) ==
  IF ls = <<>> THEN <<>>
  ELSE IF Len(ls) = 1 THEN ls[1]
  ELSE ls[1] \o <<NL>> \o Join(Tail(ls))

\* ------------------------------------------------------------- response parsing
\* \s* from position j: index of the first non-whitespace token at or after j
RECURSIVE SkipWs(_, _)
SkipWs(t, j) == IF j <= Len(t) /\ t[j] \in Whitespace THEN SkipWs(t, j + 1) ELSE j

\* \d+ from position j: index of the last token of the digit run (j - 1 if none)
RECURSIVE DigitsEnd(_, _)
DigitsEnd(t, j) == IF j <= Len(t) /\ t[j] \in Digits THEN DigitsEnd(t, j + 1) ELSE j - 1

\* The pattern r"Completeness Score:\s*(\d+)/10" with re.IGNORECASE, tried at
\* position i: the digit group of the match, or None.  \s* and \d+ are greedy and
\* what must follow each (a digit, "/") is outside its class, so the greedy
\* choice is the only one that can match.
MatchAt(t, i) ==
  IF i + 1 <= Len(t) /\ Lower(t[i]) = "completeness score" /\ t[i + 1] = ":"
  THEN LET j == SkipWs(t, i + 2)
           k == DigitsEnd(t, j)
       IN IF k >= j /\ k + 3 <= Len(t)
             /\ t[k + 1] = "/" /\ t[k + 2] = "1" /\ t[k + 3] = "0"
          THEN Some(SubSeq(t, j, k))
          ELSE None
  ELSE None

\* re.search: the leftmost match
ScoreSearch(t) ==
  LET starts == {i \in 1..Len(t) : MatchAt(t, i) # None}
  IN IF starts = {} THEN None
     ELSE MatchAt(t, CHOOSE i \in starts : \A j \in starts : i <= j)

\* int() of a digit string
RECURSIVE IntOf(_)
IntOf(ds) ==
  IF ds = <<>> THEN 0 ELSE 10 * IntOf(SubSeq(ds, 1, Len(ds) - 1)) + DigitVal(ds[Len(ds)])

\* mutant: a missing match gives the default 0
ExtractScore_Default0(t) ==
  LET m == ScoreSearch(t) IN IF m = None THEN Some(0) ELSE Some(IntOf(m[1]))

\* score = int(score_match.group(1)) if score_match else None
ExtractScore(t) ==
  LET m == ScoreSearch(t) IN IF m = None THEN None ELSE Some(IntOf(m[1]))

SectionNames == {"Missing Sections", "Improvement Tips", "Detailed Feedback"}

\* the heading literal the loop looks for: "### <name>:"
Heading(name) ==
  CASE name = "Missing Sections" -> <<"### ", "Missing Sections:">>
    [] name = "Improvement Tips" -> <<"### ", "Improvement Tips:">>
    [] name = "Detailed Feedback" -> <<"### ", "Detailed Feedback:">>

EmptySections == [n \in SectionNames |-> None]

\* the if/elif chain of the loop body: the section a line opens, or None
HeadingOf(line) ==
  IF Contains(line, Heading("Missing Sections")) THEN Some("Missing Sections")
  ELSE IF Contains(line, Heading("Improvement Tips")) THEN Some("Improvement Tips")
  ELSE IF Contains(line, Heading("Detailed Feedback")) THEN Some("Detailed Feedback")
  ELSE None

\* mutant: blank lines are appended too
ScanLine_KeepBlank(st, line) ==
  LET h == HeadingOf(line)
  IN IF h # None
     THEN [secs |-> [st.secs EXCEPT ![h[1]] = Some(<<>>)], cur |-> h]
     ELSE IF st.cur # None
     THEN [secs |-> [st.secs EXCEPT ![st.cur[1]] = Some(Append(@[1], line))],
           cur |-> st.cur]
     ELSE st

\* one iteration of `for line in result.split('\n')`
ScanLine(st, line) ==
  LET h == HeadingOf(line)
  IN IF h # None
     THEN [secs |-> [st.secs EXCEPT ![h[1]] = Some(<<>>)], cur |-> h]
     ELSE IF st.cur # None /\ Truthy(Strip(line))
     THEN [secs |-> [st.secs EXCEPT ![st.cur[1]] = Some(Append(@[1], line))],
           cur |-> st.cur]
     ELSE st

RECURSIVE ScanLines(_, _)
ScanLines(st, lines) ==
  IF lines = <<>> THEN st ELSE ScanLines(ScanLine(st, Head(lines)), Tail(lines))

\* the whole section-splitting loop over a raw response
SplitSections(t) == ScanLines([secs |-> EmptySections, cur |-> None], Split(t)).secs

\* ------------------------------------------------------------- inputs
\* What one page's extract_text() does: returns a text (ok), or raises or returns
\* None, which makes `page.extract_text() + "\n"` raise (not ok).
PageOutcomes ==
  {[ok |-> TRUE, text |-> <<"a", NL, "b">>], [ok |-> TRUE, text |-> <<>>],
   [ok |-> FALSE, text |-> <<>>]}

PageSeqs == UNION {[1..n -> PageOutcomes] : n \in 1..MaxPages}

NoFile == [kind |-> "none", opens |-> FALSE, pages |-> <<>>, ocr |-> "na", text |-> <<>>]

PdfFiles ==
  {[kind |-> "pdf", opens |-> TRUE, pages |-> ps, ocr |-> "na", text |-> <<>>] :
      ps \in PageSeqs}
  \cup {[kind |-> "pdf", opens |-> FALSE, pages |-> <<>>, ocr |-> "na", text |-> <<>>]}

ImageFiles ==
  {[kind |-> "img", opens |-> TRUE, pages |-> <<>>, ocr |-> "ok", text |-> t] :
      t \in {<<"a">>, <<>>, <<SP>>}}
  \cup {[kind |-> "img", opens |-> TRUE, pages |-> <<>>, ocr |-> o, text |-> <<>>] :
      o \in {"notfound", "error"}}
  \cup {[kind |-> "img", opens |-> FALSE, pages |-> <<>>, ocr |-> "na", text |-> <<>>]}

Files == {NoFile} \cup PdfFiles \cup ImageFiles

Terms == {<<>>, <<"t">>}
Fields == {<<>>, <<"x">>}
Edits == {<<>>, <<SP>>, <<"b">>}
Questions == {<<>>, <<SP>>, <<"q">>}
Modes == {"experiment", "analyzer"}

\* lines a model response may be made of
ScoreHeading7 == <<"### ", "Completeness Score", ":", SP, "7", "/", "1", "0">>
LineKinds ==
  { <<>>, <<SP>>, <<"x">>,
    Heading("Missing Sections"), Heading("Improvement Tips"), Heading("Detailed Feedback"),
    Heading("Missing Sections") \o <<SP>> \o Heading("Improvement Tips"),
    ScoreHeading7,
    <<"Completeness Score", ":", "1", "5", "/", "1", "0">>,
    <<"completeness score", ":", SP, "0", "/", "1", "0">>,
    <<"Completeness Score", ":">>,
    <<"1", "0", "/", "1", "0">> }

FreeRaws == {Join(ls) : ls \in UNION {[1..n -> LineKinds] : n \in 0..MaxLines}}

\* the reply the analysis prompt asks for: the four headings in order, each
\* followed by content lines of which at least one is not blank
ContentLines == {<<"x">>, <<"y">>, <<>>}
Contents ==
  {c \in UNION {[1..n -> ContentLines] : n \in 1..MaxContent} :
      \E i \in 1..Len(c) : Truthy(Strip(c[i]))}

FourHeadingLines(c1, c2, c3, c4) ==
  <<Heading("Missing Sections")>> \o c1 \o <<ScoreHeading7>> \o c2
    \o <<Heading("Improvement Tips")>> \o c3 \o <<Heading("Detailed Feedback")>> \o c4

FourHeadingRaws ==
  {Join(FourHeadingLines(c1, c2, c3, c4)) : c1 \in Contents, c2 \in Contents,
                                            c3 \in Contents, c4 \in Contents}

ParseRaws == FreeRaws \cup FourHeadingRaws

\* the responses the endpoint gives inside a whole run of the script
AppRaws ==
  { <<>>, <<"x">>,
    Join(FourHeadingLines(<<<<"x">>>>, <<<<"x">>>>, <<<<"x">>>>, <<<<"x">>>>)),
    <<"Completeness Score", ":", "1", "5", "/", "1", "0">> }

\* response.json()['choices'][0]['message']['content']: a str, null, or another
\* JSON value (number, list, object)
StrContent(t) == [t |-> "str", v |-> t]
NoneContent == [t |-> "none", v |-> <<>>]
ObjContent == [t |-> "obj", v |-> <<>>]

\* what requests.post does: status 0 is an exception with no response (timeout,
\* connection error); a 200 body may fail to decode or lack the expected field
Responses ==
  { [status |-> 401, fault |-> "none", content |-> NoneContent],
    [status |-> 500, fault |-> "none", content |-> NoneContent],
    [status |-> 0, fault |-> "transport", content |-> NoneContent],
    [status |-> 200, fault |-> "notjson", content |-> NoneContent],
    [status |-> 200, fault |-> "missingfield", content |-> NoneContent],
    [status |-> 200, fault |-> "none", content |-> NoneContent],
    [status |-> 200, fault |-> "none", content |-> ObjContent] }
  \cup {[status |-> 200, fault |-> "none", content |-> StrContent(t)] : t \in AppRaws}

\* truth value of what query_ai returned
TruthyVal(r) == r.t = "obj" \/ (r.t = "str" /\ Truthy(r.v))

\* ------------------------------------------------------------- state
VARIABLES
  pc,             \* position of the script run
  app_mode,       \* the mode radio button
  uploaded_file,  \* the file uploader's value
  lab_text,       \* the extracted, possibly edited, report text
  page_idx,       \* position of `for page in pdf.pages`
  cur,            \* the query_ai invocation in progress
  ret,            \* what the last query_ai invocation returned
  calls,          \* the query_ai invocations completed in this run, in order
  result,         \* the analysis response
  score,          \* the extracted completeness score
  sections,       \* the section lists
  expander,       \* the text inside "View Full AI Analysis"
  ui,             \* the messages and boxes rendered in this run
  inputs,         \* the widget values read in this run
  prev,           \* history: the file and the text of the latest completed PDF extraction
  sent            \* history: the glossary prompts sent to the endpoint so far

vars == <<pc, app_mode, uploaded_file, lab_text, page_idx, cur, ret, calls, result,
          score, sections, expander, ui, inputs, prev, sent>>

NoPrompt == [kind |-> "none", text |-> <<>>]
NoCall == [kind |-> "none", posts |-> 0, resp |-> <<>>, prompt |-> NoPrompt, resent |-> FALSE]
NoInputs ==
  [term |-> <<>>, exp_name |-> <<>>, hypo |-> <<>>, submit |-> FALSE,
   edited |-> FALSE, analyze |-> FALSE, question |-> <<>>, ask |-> FALSE]
NoPrev == [file |-> NoFile, text |-> <<>>]

\* the variables a fresh run of the script starts from
RunStart(mode, file) ==
  /\ pc' = "sidebar"
  /\ app_mode' = mode
  /\ uploaded_file' = file
  /\ lab_text' = <<>>
  /\ page_idx' = 0
  /\ cur' = NoCall
  /\ ret' = NoneContent
  /\ calls' = <<>>
  /\ result' = NoneContent
  /\ score' = None
  /\ sections' = EmptySections
  /\ expander' = None
  /\ ui' = {}
  /\ inputs' = NoInputs

Init ==
  /\ pc = "sidebar"
  /\ app_mode \in Modes
  /\ uploaded_file \in Files
  /\ lab_text = <<>>
  /\ page_idx = 0
  /\ cur = NoCall
  /\ ret = NoneContent
  /\ calls = <<>>
  /\ result = NoneContent
  /\ score = None
  /\ sections = EmptySections
  /\ expander = None
  /\ ui = {}
  /\ inputs = NoInputs
  /\ prev = NoPrev
  /\ sent = {}

\* ------------------------------------------------------------- query_ai
\* entering query_ai(prompt) from the call site `kind`; `text` is what the call
\* site puts into the prompt
Enter(kind, text) ==
  /\ pc' = "post"
  /\ cur' = [kind |-> kind, posts |-> 0, resp |-> <<>>,
             prompt |-> [kind |-> kind, text |-> text],
             resent |-> [kind |-> kind, text |-> text] \in sent]

\* the prompts the history keeps: those of the glossary helper, which the term
\* alone determines
Remembered(prompt) == prompt.kind = "glossary"

\* mutant: a prompt sent before is answered from a cache, without a request
PostCount_Cached(c) == IF c.resent THEN c.posts ELSE c.posts + 1

\* the requests of the invocation after its requests.post(...)
PostCount(c) == c.posts + 1

\* requests.post(API_URL, ...): one request, answered by the endpoint
QueryPost ==
  /\ pc = "post"
  /\ \E r \in Responses : cur' = [cur EXCEPT !.posts = PostCount(cur), !.resp = Some(r)]
  /\ sent' = IF Remembered(cur.prompt) THEN sent \cup {cur.prompt} ELSE sent
  /\ pc' = "handle"
  /\ UNCHANGED <<app_mode, uploaded_file, lab_text, page_idx, ret, calls, result,
                 score, sections, expander, ui, inputs, prev>>

\* mutant: the 401 check is missing, raise_for_status() reports the 401
Outcome_No401Check(r) ==
  IF r.status = 0 THEN "conn"
  ELSE IF r.status # 200 THEN "http"
  ELSE IF r.fault # "none" THEN "conn"
  ELSE "ok"

\* which branch of query_ai a response takes
Outcome(r) ==
  IF r.status = 0 THEN "conn"                       \* requests.post raised
  ELSE IF r.status = 401 THEN "auth"
  ELSE IF r.status # 200 THEN "http"                \* raise_for_status()
  ELSE IF r.fault # "none" THEN "conn"              \* json() / indexing raised
  ELSE "ok"

\* the st.error message of each failing branch
ErrorTag(o) ==
  CASE o = "auth" -> {"err_auth"}
    [] o = "http" -> {"err_http"}
    [] o = "conn" -> {"err_conn"}
    [] OTHER -> {}

\* mutant: a failing branch returns its error message instead of None
Returned_ErrorText(r) == IF Outcome(r) = "ok" THEN r.content ELSE StrContent(<<"x">>)

\* the value query_ai returns
Returned(r) == IF Outcome(r) = "ok" THEN r.content ELSE NoneContent

\* where the script continues after the call
ReturnPc(kind) ==
  CASE kind = "glossary" -> "glossary_show"
    [] kind = "guide" -> "guide_show"
    [] kind = "analysis" -> "analysis_show"
    [] kind = "followup" -> "followup_show"

\* the rest of query_ai after the request: status check, decoding, error report
QueryHandle ==
  /\ pc = "handle"
  /\ LET r == cur.resp[1]
     IN /\ ret' = Returned(r)
        /\ ui' = ui \cup ErrorTag(Outcome(r))
        /\ calls' = Append(calls, [kind |-> cur.kind, posts |-> cur.posts,
                                   status |-> r.status, fault |-> r.fault,
                                   outcome |-> Outcome(r), resent |-> cur.resent])
  /\ pc' = ReturnPc(cur.kind)
  /\ cur' = NoCall
  /\ UNCHANGED <<app_mode, uploaded_file, lab_text, page_idx, result, score,
                 sections, expander, inputs, prev, sent>>

\* ------------------------------------------------------------- sidebar
\* term = st.text_input(...); if term: query_ai(...)
Sidebar ==
  /\ pc = "sidebar"
  /\ \E term \in Terms :
       /\ inputs' = [inputs EXCEPT !.term = term]
       /\ IF Truthy(term)
          THEN Enter("glossary", term)
          ELSE pc' = "mode" /\ cur' = cur
  /\ UNCHANGED <<app_mode, uploaded_file, lab_text, page_idx, ret, calls, result,
                 score, sections, expander, ui, prev, sent>>

\* if ai_response: concept box, else: warning
GlossaryShow ==
  /\ pc = "glossary_show"
  /\ ui' = ui \cup (IF TruthyVal(ret) THEN {"glossary_box"} ELSE {"glossary_warn"})
  /\ pc' = "mode"
  /\ UNCHANGED <<app_mode, uploaded_file, lab_text, page_idx, cur, ret, calls,
                 result, score, sections, expander, inputs, prev, sent>>

\* if app_mode == "Experiment Assistant": ... else: ...
Mode ==
  /\ pc = "mode"
  /\ pc' = IF app_mode = "experiment" THEN "form" ELSE "upload"
  /\ UNCHANGED <<app_mode, uploaded_file, lab_text, page_idx, cur, ret, calls,
                 result, score, sections, expander, ui, inputs, prev, sent>>

\* ------------------------------------------------------------- experiment assistant
\* mutant: the warning needs both fields to be missing (`and` for `or`)
FieldsMissing_Both(name, hypo) == ~Truthy(name) /\ ~Truthy(hypo)

\* if not exp_name or not hypo:
FieldsMissing(name, hypo) == ~Truthy(name) \/ ~Truthy(hypo)

\* the form and `if submit:`: a warning and st.stop() when the name or the
\* hypothesis is missing, else the guide prompt is sent
Form ==
  /\ pc = "form"
  /\ \E name \in Fields, hypo \in Fields, submit \in BOOLEAN :
       /\ inputs' = [inputs EXCEPT !.exp_name = name, !.hypo = hypo, !.submit = submit]
       /\ IF ~submit
          THEN pc' = "done" /\ ui' = ui /\ cur' = cur
          ELSE IF FieldsMissing(name, hypo)
          THEN pc' = "stopped" /\ ui' = ui \cup {"warn_fields"} /\ cur' = cur
          ELSE Enter("guide", name \o <<NL>> \o hypo) /\ ui' = ui
  /\ UNCHANGED <<app_mode, uploaded_file, lab_text, page_idx, ret, calls, result,
                 score, sections, expander, prev, sent>>

\* if explanation: show the guide, write the PDF and offer it for download
GuideShow ==
  /\ pc = "guide_show"
  /\ ui' = ui \cup (IF TruthyVal(ret) THEN {"guide", "guide_pdf"} ELSE {})
  /\ pc' = "done"
  /\ UNCHANGED <<app_mode, uploaded_file, lab_text, page_idx, cur, ret, calls,
                 result, score, sections, expander, inputs, prev, sent>>

\* ------------------------------------------------------------- report upload
\* lab_text = ""; if uploaded_file: dispatch on the extension
Upload ==
  /\ pc = "upload"
  /\ lab_text' = <<>>
  /\ pc' = CASE uploaded_file.kind = "none" -> "gate"
             [] uploaded_file.kind = "pdf" -> "pdf_open"
             [] uploaded_file.kind = "img" -> "img_open"
  /\ UNCHANGED <<app_mode, uploaded_file, page_idx, cur, ret, calls, result, score,
                 sections, expander, ui, inputs, prev, sent>>

\* pdfplumber.open(...): an invalid PDF raises into the except branch
PdfOpen ==
  /\ pc = "pdf_open"
  /\ IF uploaded_file.opens
     THEN pc' = "pdf_loop" /\ page_idx' = 1 /\ ui' = ui /\ prev' = prev
     ELSE pc' = "edit" /\ page_idx' = page_idx /\ ui' = ui \cup {"err_pdf"}
          /\ prev' = NoPrev
  /\ UNCHANGED <<app_mode, uploaded_file, lab_text, cur, ret, calls, result, score,
                 sections, expander, inputs, sent>>

\* mutant: the newline is put between pages only
PageAppend_Between(text, page) ==
  IF text = <<>> THEN page.text ELSE text \o <<NL>> \o page.text

\* lab_text += page.extract_text() + "\n"
PageAppend(text, page) == text \o page.text \o <<NL>>

\* one iteration of `for page in pdf.pages`; a failing page leaves the loop
\* through `except Exception`, which reports and goes on with the script
PdfPage ==
  /\ pc = "pdf_loop"
  /\ page_idx <= Len(uploaded_file.pages)
  /\ LET page == uploaded_file.pages[page_idx]
     IN IF page.ok
        THEN /\ lab_text' = PageAppend(lab_text, page)
             /\ page_idx' = page_idx + 1
             /\ pc' = pc /\ ui' = ui /\ prev' = prev
        ELSE /\ lab_text' = lab_text
             /\ page_idx' = page_idx
             /\ pc' = "edit" /\ ui' = ui \cup {"err_pdf"} /\ prev' = NoPrev
  /\ UNCHANGED <<app_mode, uploaded_file, cur, ret, calls, result, score, sections,
                 expander, inputs, sent>>

\* the loop is over: position "pdf_done" holds the finished extraction
PdfLoopEnd ==
  /\ pc = "pdf_loop"
  /\ page_idx > Len(uploaded_file.pages)
  /\ pc' = "pdf_done"
  /\ UNCHANGED <<app_mode, uploaded_file, lab_text, page_idx, cur, ret, calls,
                 result, score, sections, expander, ui, inputs, prev, sent>>

\* st.success("PDF text extracted successfully!")
PdfSuccess ==
  /\ pc = "pdf_done"
  /\ ui' = ui \cup {"pdf_success"}
  /\ prev' = [file |-> uploaded_file, text |-> lab_text]
  /\ pc' = "edit"
  /\ UNCHANGED <<app_mode, uploaded_file, lab_text, page_idx, cur, ret, calls,
                 result, score, sections, expander, inputs, sent>>

\* Image.open(...); st.image(...)
ImgOpen ==
  /\ pc = "img_open"
  /\ IF uploaded_file.opens
     THEN pc' = "ocr" /\ ui' = ui
     ELSE pc' = "edit" /\ ui' = ui \cup {"err_image"}
  /\ prev' = NoPrev
  /\ UNCHANGED <<app_mode, uploaded_file, lab_text, page_idx, cur, ret, calls,
                 result, score, sections, expander, inputs, sent>>

\* pytesseract.image_to_string(image); both except branches end in st.stop()
Ocr ==
  /\ pc = "ocr"
  /\ IF uploaded_file.ocr = "ok"
     THEN lab_text' = uploaded_file.text /\ ui' = ui \cup {"ocr_success"} /\ pc' = "edit"
     ELSE IF uploaded_file.ocr = "notfound"
     THEN lab_text' = lab_text /\ ui' = ui \cup {"err_tesseract"} /\ pc' = "stopped"
     ELSE lab_text' = lab_text /\ ui' = ui \cup {"err_ocr"} /\ pc' = "stopped"
  /\ UNCHANGED <<app_mode, uploaded_file, page_idx, cur, ret, calls, result, score,
                 sections, expander, inputs, prev, sent>>

\* if lab_text: lab_text = st.text_area("", lab_text, ...): the text as it is or
\* as the user edited it
Edit ==
  /\ pc = "edit"
  /\ IF Truthy(lab_text)
     THEN \E t \in {lab_text} \cup Edits :
             /\ lab_text' = t
             /\ inputs' = [inputs EXCEPT !.edited = (t # lab_text)]
     ELSE lab_text' = lab_text /\ inputs' = inputs
  /\ pc' = "gate"
  /\ UNCHANGED <<app_mode, uploaded_file, page_idx, cur, ret, calls, result, score,
                 sections, expander, ui, prev, sent>>

\* ------------------------------------------------------------- analysis
\* mutant: the gate tests lab_text without strip()
GateOpen_NoStrip(text) == Truthy(text)

\* if lab_text.strip():
GateOpen(text) == Truthy(Strip(text))

\* the gate: the analyzer below it, or the sample report
Gate ==
  /\ pc = "gate"
  /\ IF GateOpen(lab_text)
     THEN pc' = "analyze_button" /\ ui' = ui
     ELSE pc' = "done" /\ ui' = ui \cup {"sample_report"}
  /\ UNCHANGED <<app_mode, uploaded_file, lab_text, page_idx, cur, ret, calls,
                 result, score, sections, expander, inputs, prev, sent>>

\* if st.button("Analyze Report"): result = query_ai(full_prompt).  The values
\* the widgets of the analyzer hold in this run (the Analyze button, the question
\* field, the Ask button) are fixed here, where the first of them is read.
AnalyzeButton ==
  /\ pc = "analyze_button"
  /\ \E clicked \in BOOLEAN, q \in Questions, ask \in BOOLEAN :
       /\ inputs' = [inputs EXCEPT !.analyze = clicked, !.question = q, !.ask = ask]
       /\ IF clicked THEN Enter("analysis", lab_text) ELSE pc' = "question" /\ cur' = cur
  /\ UNCHANGED <<app_mode, uploaded_file, lab_text, page_idx, ret, calls, result,
                 score, sections, expander, ui, prev, sent>>

\* if result: st.success("Analysis Complete!")
AnalysisShow ==
  /\ pc = "analysis_show"
  /\ result' = ret
  /\ IF TruthyVal(ret)
     THEN pc' = "score" /\ ui' = ui \cup {"analysis_complete"}
     ELSE pc' = "question" /\ ui' = ui
  /\ UNCHANGED <<app_mode, uploaded_file, lab_text, page_idx, cur, ret, calls,
                 score, sections, expander, inputs, prev, sent>>

\* score_match = re.search(...); score = int(...) if score_match else None.
\* re.search raises TypeError when the content is not a str.
ScoreExtract ==
  /\ pc = "score"
  /\ IF result.t = "str"
     THEN score' = ExtractScore(result.v) /\ pc' = "score_card" /\ ui' = ui
     ELSE score' = score /\ pc' = "crashed" /\ ui' = ui \cup {"exception"}
  /\ UNCHANGED <<app_mode, uploaded_file, lab_text, page_idx, cur, ret, calls,
                 result, sections, expander, inputs, prev, sent>>

\* st.progress(score/10, ...) accepts a float in [0.0, 1.0] and raises otherwise
ProgressAccepts(n) == 0 <= n /\ n <= 10

\* if score is not None: the score card with its progress bar
ScoreCard ==
  /\ pc = "score_card"
  /\ IF score = None
     THEN pc' = "split" /\ ui' = ui \cup {"analysis_results"}
     ELSE IF ProgressAccepts(score[1])
     THEN pc' = "split" /\ ui' = ui \cup {"score_card", "analysis_results"}
     ELSE pc' = "crashed" /\ ui' = ui \cup {"exception"}
  /\ UNCHANGED <<app_mode, uploaded_file, lab_text, page_idx, cur, ret, calls,
                 result, score, sections, expander, inputs, prev, sent>>

\* sections = {...: None}; for line in result.split('\n'): ...
SplitStep ==
  /\ pc = "split"
  /\ sections' = SplitSections(result.v)
  /\ pc' = "display"
  /\ UNCHANGED <<app_mode, uploaded_file, lab_text, page_idx, cur, ret, calls,
                 result, score, expander, ui, inputs, prev, sent>>

\* the box of a section is shown if its list is neither None nor empty
SectionShown(secs, name) == secs[name] # None /\ secs[name][1] # <<>>

SectionTag(name) ==
  CASE name = "Missing Sections" -> "box_missing"
    [] name = "Improvement Tips" -> "box_tips"
    [] name = "Detailed Feedback" -> "box_feedback"

\* the three section boxes and the "View Full AI Analysis" expander
Display ==
  /\ pc = "display"
  /\ ui' = ui \cup {SectionTag(n) : n \in {m \in SectionNames : SectionShown(sections, m)}}
              \cup {"expander"}
  /\ expander' = Some(result.v)
  /\ pc' = "question"
  /\ UNCHANGED <<app_mode, uploaded_file, lab_text, page_idx, cur, ret, calls,
                 result, score, sections, inputs, prev, sent>>

\* ------------------------------------------------------------- follow-up question
\* if (ask_button or user_question) and user_question.strip():
AskCondition(ask, question) == (ask \/ Truthy(question)) /\ Truthy(Strip(question))

Question ==
  /\ pc = "question"
  /\ IF AskCondition(inputs.ask, inputs.question)
     THEN Enter("followup", lab_text \o <<NL>> \o inputs.question)
     ELSE pc' = "done" /\ cur' = cur
  /\ UNCHANGED <<app_mode, uploaded_file, lab_text, page_idx, ret, calls, result,
                 score, sections, expander, ui, inputs, prev, sent>>

\* if followup_response: show the answer
FollowupShow ==
  /\ pc = "followup_show"
  /\ ui' = ui \cup (IF TruthyVal(ret) THEN {"followup_box"} ELSE {})
  /\ pc' = "done"
  /\ UNCHANGED <<app_mode, uploaded_file, lab_text, page_idx, cur, ret, calls,
                 result, score, sections, expander, inputs, prev, sent>>

\* ------------------------------------------------------------- reruns
\* the run is over (the script ended, st.stop() or an uncaught exception): the
\* script's variables are gone, the widgets keep their values
EndRun ==
  /\ pc \in {"done", "stopped", "crashed"}
  /\ RunStart(app_mode, uploaded_file)
  /\ prev' = prev
  /\ sent' = sent

\* a widget interaction runs the script again from the top
Rerun ==
  /\ pc = "sidebar"
  /\ calls = <<>>
  /\ \E mode \in Modes, file \in Files : app_mode' = mode /\ uploaded_file' = file
  /\ UNCHANGED <<pc, lab_text, page_idx, cur, ret, calls, result, score, sections,
                 expander, ui, inputs, prev, sent>>

Next ==
  \/ Sidebar \/ QueryPost \/ QueryHandle \/ GlossaryShow \/ Mode
  \/ Form \/ GuideShow
  \/ Upload \/ PdfOpen \/ PdfPage \/ PdfLoopEnd \/ PdfSuccess \/ ImgOpen \/ Ocr \/ Edit
  \/ Gate \/ AnalyzeButton \/ AnalysisShow \/ ScoreExtract \/ ScoreCard \/ SplitStep
  \/ Display \/ Question \/ FollowupShow \/ EndRun \/ Rerun

Spec == Init /\ [][Next]_vars

\* ------------------------------------------------------------- the parser alone
\* The script right after `result = query_ai(full_prompt)` returned a str, for
\* every response text within the bounds.
InitParse ==
  /\ pc = "analysis_show"
  /\ app_mode = "analyzer"
  /\ uploaded_file = NoFile
  /\ lab_text \in {<<"a">>}
  /\ page_idx = 0
  /\ cur = NoCall
  /\ ret \in {StrContent(t) : t \in ParseRaws}
  /\ calls = <<[kind |-> "analysis", posts |-> 1, status |-> 200, fault |-> "none",
                outcome |-> "ok", resent |-> FALSE]>>
  /\ result = NoneContent
  /\ score = None
  /\ sections = EmptySections
  /\ expander = None
  /\ ui = {}
  /\ inputs = [NoInputs EXCEPT !.analyze = TRUE]
  /\ prev = NoPrev
  /\ sent = {}

NextParse == AnalysisShow \/ ScoreExtract \/ ScoreCard \/ SplitStep \/ Display

SpecParse == InitParse /\ [][NextParse]_vars

\* ------------------------------------------------------------- claims
Blank(t) == \A i \in 1..Len(t) : t[i] \in Whitespace

\* the invocations of this run, the one in progress included
Issued(kind) == cur.kind = kind \/ \E i \in 1..Len(calls) : calls[i].kind = kind

\* C1: whenever the report text is empty or only whitespace, no analysis call is
\* issued in the run; equivalently an analysis call is only ever issued on a text
\* with a non-whitespace character.
C1_NoBlankAnalysis == Issued("analysis") => ~Blank(lab_text)

\* C1 witness: a file was uploaded, its text is whitespace only (not empty), the
\* run ended with the sample report and without an analysis call.
C1_Witness ==
  /\ pc = "done" /\ uploaded_file.kind = "pdf"
  /\ Truthy(lab_text) /\ Blank(lab_text)
  /\ "sample_report" \in ui /\ ~Issued("analysis")

\* C2: an invocation answered with HTTP 401 takes the authentication branch (not
\* the HTTP-error or the connection-error branch) and has made exactly one
\* request.
C2_Auth401Once ==
  /\ \A i \in 1..Len(calls) :
        calls[i].status = 401 => calls[i].outcome = "auth" /\ calls[i].posts = 1
  /\ (pc = "handle" /\ cur.resp[1].status = 401) => cur.posts = 1
  /\ (\E i \in 1..Len(calls) : calls[i].status = 401) => "err_auth" \in ui
  /\ (\A i \in 1..Len(calls) : calls[i].status = 401) =>
        ui \cap {"err_http", "err_conn"} = {}

\* C2 witness: the analysis call of a run was answered with 401.
C2_Witness ==
  \E i \in 1..Len(calls) : calls[i].status = 401 /\ calls[i].kind = "analysis"

\* C3 (as claimed): once reading the PDF has failed on some page, the action is
\* over: the text of the earlier pages is not carried to the analyzer (the run
\* never gets to the Analyze button) and no analysis or follow-up call is issued.
\* Stated for the runs in which the user leaves the text area as it is.
C3_PdfErrorTerminal ==
  ("err_pdf" \in ui /\ ~inputs.edited) =>
     pc # "analyze_button" /\ ~Issued("analysis") /\ ~Issued("followup")

AnalysisTags ==
  {"analysis_complete", "score_card", "analysis_results", "box_missing", "box_tips",
   "box_feedback", "expander"}

\* C4: when the analysis call of a run failed (401, other HTTP status, transport
\* failure, malformed body), no score and no section is produced or displayed.
C4_NoPartialResult ==
  (\E i \in 1..Len(calls) : calls[i].kind = "analysis" /\ calls[i].outcome # "ok") =>
     /\ score = None
     /\ sections = EmptySections
     /\ expander = None
     /\ ui \cap AnalysisTags = {}

\* C4 witness: a run that ended after its analysis call got a malformed body.
C4_Witness ==
  /\ pc = "done"
  /\ \E i \in 1..Len(calls) :
        calls[i].kind = "analysis" /\ calls[i].fault = "missingfield"

\* the sum of the lengths of the page texts
RECURSIVE TextLen(_)
TextLen(pages) == IF pages = <<>> THEN 0 ELSE Len(Head(pages).text) + TextLen(Tail(pages))

\* the page texts, each followed by a newline
RECURSIVE EachWithNewline(_)
EachWithNewline(pages) ==
  IF pages = <<>> THEN <<>>
  ELSE Head(pages).text \o <<NL>> \o EachWithNewline(Tail(pages))

\* C10 (as claimed): the extracted text of an N-page PDF is the page texts joined
\* by a newline between consecutive pages, N-1 added newlines, none after the last.
C10_SeparatorsBetween ==
  pc = "pdf_done" =>
     /\ lab_text = Join([i \in 1..Len(uploaded_file.pages) |-> uploaded_file.pages[i].text])
     /\ Len(lab_text) = TextLen(uploaded_file.pages) + Len(uploaded_file.pages) - 1

\* C10 (amended): the extracted text of an N-page PDF is each page's text followed
\* by a newline, in page order, so N newlines are added (one after every page, the
\* last included); extracting the same file again gives the same text.
C10_NewlineAfterEachPage ==
  pc = "pdf_done" =>
     /\ lab_text = EachWithNewline(uploaded_file.pages)
     /\ Len(lab_text) = TextLen(uploaded_file.pages) + Len(uploaded_file.pages)
     /\ prev.file = uploaded_file => lab_text = prev.text

\* C10 witness: a PDF of at least two pages extracted for the second time in a row.
C10_Witness ==
  /\ pc = "pdf_done" /\ Len(uploaded_file.pages) >= 2
  /\ prev.file = uploaded_file
  /\ \E i \in 1..Len(uploaded_file.pages) : uploaded_file.pages[i].text # <<>>

\* ------------------------------------------------------------- claims on the parser
\* the score of this response has been extracted
ScoreKnown == pc \in {"score_card", "split", "display", "crashed"} /\ result.t = "str"

\* the contents of a four-heading response none of whose lines is blank
NonBlankContents == {c \in Contents : \A i \in 1..Len(c) : ~Blank(c[i])}

\* C5 (as claimed): for a response with the four headings in the requested order
\* and non-blank content after each, the score is 7 and each of the three section
\* lists is exactly the lines between its heading and the next heading.
C5_FourHeadingSections ==
  pc = "display" =>
    \A c1 \in NonBlankContents, c2 \in NonBlankContents,
       c3 \in NonBlankContents, c4 \in NonBlankContents :
       result.v = Join(FourHeadingLines(c1, c2, c3, c4)) =>
          /\ score = Some(7)
          /\ sections["Missing Sections"] = Some(c1)
          /\ sections["Improvement Tips"] = Some(c3)
          /\ sections["Detailed Feedback"] = Some(c4)

\* C6 (as claimed): a response without the substring "### Completeness Score"
\* has no score.
C6_NoHashHeadingNoScore ==
  (ScoreKnown /\ ~Contains(result.v, <<"### ", "Completeness Score">>)) =>
     score = None /\ pc # "crashed"

\* "Completeness Score:" in any letter case occurs in the text
HasScoreLabel(t) ==
  \E i \in 1..(Len(t) - 1) : Lower(t[i]) = "completeness score" /\ t[i + 1] = ":"

\* C6 (amended): a response in which "Completeness Score:" occurs in no letter
\* case (with or without "### " before it) has no score: not a number, not 0,
\* and handling it does not raise.
C6_NoLabelNoScore ==
  (ScoreKnown /\ ~HasScoreLabel(result.v)) => score = None /\ pc # "crashed"

\* C6 witness: a response with digits and "/10" but without the label, handled up
\* to the score card.
C6_Witness ==
  /\ pc = "score_card" /\ result.t = "str" /\ ~HasScoreLabel(result.v)
  /\ Contains(result.v, <<"1", "0", "/", "1", "0">>)
  /\ score = None

\* C7 (as claimed): the score of any response is absent or an integer in 1..10.
C7_ScoreInRange == ScoreKnown => (score = None \/ score[1] \in 1..10)

\* the headings the if/elif chain tests before the heading of `name`
Prior(name) ==
  CASE name = "Missing Sections" -> {}
    [] name = "Improvement Tips" -> {"Missing Sections"}
    [] name = "Detailed Feedback" -> {"Missing Sections", "Improvement Tips"}

HasHeading(line, name) == Contains(line, Heading(name))
HasAnyHeading(line) == \E n \in SectionNames : HasHeading(line, n)
NonBlankLine(line) == ~Blank(line)

Max(S) == CHOOSE x \in S : \A y \in S : y <= x
Min(S) == CHOOSE x \in S : \A y \in S : x <= y

\* the non-blank lines after the last line of `occ` up to the next heading line
AfterLast(lines, occ) ==
  LET last == Max(occ)
      ends == {j \in (last + 1)..Len(lines) : HasAnyHeading(lines[j])}
      stop == IF ends = {} THEN Len(lines) + 1 ELSE Min(ends)
  IN Some(SelectSeq(SubSeq(lines, last + 1, stop - 1), NonBlankLine))

\* C8 (as claimed): after the scan a section is absent if no line contains its
\* heading, and else is the non-blank lines after the last line containing its
\* heading up to the next line containing any of the three headings.
C8_LastOccurrence ==
  pc = "display" =>
    LET lines == Split(result.v)
    IN \A n \in SectionNames :
         LET occ == {i \in 1..Len(lines) : HasHeading(lines[i], n)}
         IN sections[n] = IF occ = {} THEN None ELSE AfterLast(lines, occ)

\* C8 (amended): the same, where a line that contains several of the headings
\* counts as an occurrence of the first of them only, in the order Missing
\* Sections, Improvement Tips, Detailed Feedback.
C8_LastOccurrenceFirstHeading ==
  pc = "display" =>
    LET lines == Split(result.v)
    IN \A n \in SectionNames :
         LET occ == {i \in 1..Len(lines) :
                        /\ HasHeading(lines[i], n)
                        /\ \A m \in Prior(n) : ~HasHeading(lines[i], m)}
         IN sections[n] = IF occ = {} THEN None ELSE AfterLast(lines, occ)

\* C8 witness: a heading occurs twice with a content line between the two
\* occurrences, and that line is in no section.
C8_Witness ==
  /\ pc = "display"
  /\ LET lines == Split(result.v)
     IN \E i, j, k \in 1..Len(lines) :
          /\ i < j /\ j < k
          /\ HasHeading(lines[i], "Missing Sections")
          /\ HasHeading(lines[k], "Missing Sections")
          /\ ~HasAnyHeading(lines[j]) /\ NonBlankLine(lines[j])
          /\ sections["Missing Sections"] = Some(<<>>)

\* C9 (as claimed): handling a response that contains none of the three heading
\* literals never fails; all three sections are absent and the response is
\* displayed unchanged and in full.
C9_NoHeadingsNeverFails ==
  (result.t = "str" /\ Truthy(result.v)
     /\ \A n \in SectionNames : ~Contains(result.v, Heading(n))) =>
    /\ pc # "crashed"
    /\ pc = "question" => (sections = EmptySections /\ expander = Some(result.v))

\* ------------------------------------------------------------- claims on errors and calls
Terminal == {"done", "stopped", "crashed"}

\* the error class of a completed invocation, by what the endpoint did
CallClass(c) ==
  IF c.status = 401 THEN {"AuthenticationError"}
  ELSE IF c.status = 0 THEN {"TransportError"}
  ELSE IF c.status # 200 THEN {"UpstreamHTTPError"}
  ELSE IF c.fault # "none" THEN {"MalformedResponseError"}
  ELSE {}

\* the error class of the extraction of this run, by what the file did
ExtractionClass ==
  IF app_mode # "analyzer" THEN {}
  ELSE IF uploaded_file.kind = "pdf"
  THEN IF ~uploaded_file.opens
          \/ \E i \in 1..Len(uploaded_file.pages) : ~uploaded_file.pages[i].ok
       THEN {"PdfParseError"} ELSE {}
  ELSE IF uploaded_file.kind = "img"
  THEN IF ~uploaded_file.opens \/ uploaded_file.ocr = "error"
       THEN {"OcrRecognitionError"}
       ELSE IF uploaded_file.ocr = "notfound" THEN {"OcrEngineUnavailable"} ELSE {}
  ELSE {}

\* the error classes that occurred in this run
ClassesOccurred ==
  ExtractionClass \cup UNION {CallClass(calls[i]) : i \in 1..Len(calls)}

\* the fixed texts of the st.error messages
ErrorMessages ==
  {"err_pdf", "err_image", "err_tesseract", "err_ocr", "err_auth", "err_http", "err_conn"}

\* C11 (as claimed): every error class is reported with a message of its own, so
\* a finished run shows at least as many different error messages as error
\* classes occurred in it; a transport failure and a malformed success response
\* in one run show two different messages.
C11_DistinctMessages ==
  pc \in Terminal =>
     Cardinality(ui \cap ErrorMessages) >= Cardinality(ClassesOccurred)

\* C12: the guide prompt is sent only on a submitted form whose experiment name
\* and hypothesis are both non-empty; a form submitted with either one empty ends
\* the run with the warning, without a guide call, a guide or a PDF.
C12_GuideNeedsNameAndHypothesis ==
  /\ Issued("guide") =>
        inputs.submit /\ inputs.exp_name # <<>> /\ inputs.hypo # <<>>
  /\ (inputs.submit /\ (inputs.exp_name = <<>> \/ inputs.hypo = <<>>)) =>
        /\ pc = "stopped"
        /\ "warn_fields" \in ui
        /\ ui \cap {"guide", "guide_pdf"} = {}
        /\ ~Issued("guide")

\* C12 witness: a form submitted with a name and without a hypothesis.
C12_Witness ==
  /\ pc = "stopped" /\ inputs.submit
  /\ inputs.exp_name # <<>> /\ inputs.hypo = <<>>
  /\ "warn_fields" \in ui

\* C13: every invocation of query_ai makes exactly one request, whatever its
\* outcome: none before requests.post, one after it and when it has returned,
\* also when the same prompt was sent to the endpoint before.
C13_OneRequestPerCall ==
  /\ \A i \in 1..Len(calls) : calls[i].posts = 1
  /\ pc = "post" => cur.posts = 0
  /\ pc = "handle" => cur.posts = 1

\* C13 witness: an invocation whose prompt had been sent before made its one
\* request, which timed out, and returned.
C13_Witness ==
  \E i \in 1..Len(calls) :
     calls[i].resent /\ calls[i].posts = 1 /\ calls[i].status = 0

\* the invocations of this run that have returned
Completed(kind) == \E i \in 1..Len(calls) : calls[i].kind = kind

\* C14 (as claimed): a finished run of the analyzer has issued a follow-up call
\* if and only if the report text and the question are both non-blank, whatever
\* the Ask button; and when Analyze was clicked in it, the analysis call came
\* first and had returned before the follow-up call started.  Stated for the
\* runs in which the content of the analysis response, if any, is a str.
C14_FollowupIff ==
  /\ (pc \in Terminal /\ app_mode = "analyzer" /\ result.t # "obj") =>
        (Completed("followup") <=> (~Blank(lab_text) /\ ~Blank(inputs.question)))
  /\ (Issued("followup") /\ inputs.analyze) =>
        /\ calls # <<>>
        /\ \E i \in 1..Len(calls) :
              /\ calls[i].kind = "analysis"
              /\ \A j \in 1..Len(calls) : calls[j].kind = "followup" => i < j

====
